---- MODULE Spec2Model ----
(***************************************************************************)
(* Model of the extension registry of stix/bindings/__init__.py            *)
(* (TypeInfo, get_type_info, add_extension, register_extension,            *)
(* lookup_extension, has_xsi_type) and of the property setters of          *)
(* CourseOfAction in stix/coa/__init__.py.                                 *)
(*                                                                         *)
(* Python strings that the code splits are sequences of one-character      *)
(* strings; namespace URIs, which the code never inspects, are atoms.      *)
(* Every Python value that an operation can receive or return is a record  *)
(* [type, inner, v]: its Python type, the type of the value it wraps (for  *)
(* the wrapper types), and a printable payload.                            *)
(***************************************************************************)
EXTENDS Integers, Sequences, FiniteSets, TLC

\* ---------------------------------------------------------------- bounds
\* longest xsi:type attribute value that is enumerated
MaxLen == 3
\* number of property assignments made to the CourseOfAction
MaxAssign == 3

\* ---------------------------------------------------------------- values
Chars == {"p", "T", ":"}
URIs == {"urn:x", "urn:bar"}

Value(t, i, v) == [type |-> t, inner |-> i, v |-> v]
PyNone == Value("NoneType", "", "None")
ClassRef(name) == Value("type", "", name)

\* bool(x): None, "", 0, False and empty collections are falsy; instances of
\* classes and class objects are truthy
Truthy(x) ==
    CASE x.type = "NoneType" -> FALSE
      [] x.type = "str" -> x.v # ""
      [] x.type = "int" -> x.v # "0"
      [] x.type = "bool" -> x.v = "True"
      [] x.type = "list" -> x.v # "[]"
      [] OTHER -> TRUE

\* a str object and a list object, as get_type_info produces them
PyStr(s) == [isList |-> FALSE, items |-> <<s>>]
PyList(l) == [isList |-> TRUE, items |-> l]

\* hash() of a list raises TypeError, and so does hash() of a tuple holding one
Hashable(typeinfo) == ~typeinfo.typename.isList

TypeInfo(ns, typename) == [ns |-> ns, typename |-> typename]

\* the key None of an lxml nsmap (the default namespace)
NonePrefix == <<"None">>

\* str.split(sep) on a string held as a sequence of characters
RECURSIVE SplitFrom(_, _, _)
SplitFrom(s, sep, cur) ==
    IF s = <<>> THEN <<cur>>
    ELSE IF Head(s) = sep THEN <<cur>> \o SplitFrom(Tail(s), sep, <<>>)
    ELSE SplitFrom(Tail(s), sep, Append(cur, Head(s)))

Split(s, sep) == SplitFrom(s, sep, <<>>)

\* outcomes of a call
NoTypeInfo == TypeInfo("", PyStr(<<>>))
Return(v) == [kind |-> "return", exc |-> "", value |-> v, msg |-> NoTypeInfo]
Raise(exc) == [kind |-> "raise", exc |-> exc, value |-> PyNone, msg |-> NoTypeInfo]
RaiseMsg(exc, ti) == [kind |-> "raise", exc |-> exc, value |-> PyNone, msg |-> ti]

\* ---------------------------------------------------------------- inputs
\* binding classes: a class may lack xmlns or xml_type
Class(name, hasNs, ns, hasType, type) ==
    [name |-> name, has_xmlns |-> hasNs, xmlns |-> ns,
     has_xml_type |-> hasType, xml_type |-> type]

Classes ==
    { Class("Foo", TRUE, "urn:x", TRUE, <<"T">>),
      Class("Baz", TRUE, "urn:x", TRUE, <<"T">>),
      Class("Bar", TRUE, "urn:bar", TRUE, <<"p">>),
      Class("NoXmlns", FALSE, "", TRUE, <<"T">>),
      Class("NoXmlType", TRUE, "urn:x", FALSE, <<>>) }

ClassNames == {c.name : c \in Classes}

Strings(n) == UNION {[1..k -> Chars] : k \in 0..n}

\* namespace maps: the default namespace and the prefix p, each bound or not
NsMaps ==
    { m \in UNION {[K -> URIs] : K \in SUBSET {NonePrefix, <<"p">>}} :
        /\ NonePrefix \in DOMAIN m => m[NonePrefix] = "urn:x"
        /\ <<"p">> \in DOMAIN m => m[<<"p">>] = "urn:bar" }

\* an lxml element: its attrib may hold xsi:type, and it has an nsmap
XmlNodes == {n \in [has_xsi : BOOLEAN, xsi_type : Strings(MaxLen), nsmap : NsMaps] :
                ~n.has_xsi => n.xsi_type = <<>>}

TypeInfos == {TypeInfo(ns, PyStr(t)) : ns \in URIs, t \in {<<"T">>, <<"p">>}}

\* values passed as default: omitted (None), a binding class, or a falsy
\* object that is not None
Defaults ==
    {PyNone, Value("int", "", "0"), ClassRef("Bar")}

NoNode == [has_xsi |-> FALSE, xsi_type |-> <<>>, nsmap |-> <<>>]

\* the first argument of lookup_extension: a TypeInfo or an element
FromTypeInfo(ti) == [isTypeInfo |-> TRUE, ti |-> ti, node |-> NoNode]
FromNode(n) == [isTypeInfo |-> FALSE, ti |-> NoTypeInfo, node |-> n]

\* ---------------------------------------------------------------- state
VARIABLES
    registry,        \* _BINDING_EXTENSION_MAP: TypeInfo -> class name
    call,            \* the last call made on the registry
    outcome,         \* what that call returned or raised
    prevRegistry,    \* the registry as it was before that call
    lastRegistered,  \* history: the class of the latest successful
                     \* registration under each TypeInfo
    coa,             \* the private fields of one CourseOfAction
    coaCall,         \* the last assignment made to a property of it
    coaOutcome,      \* "ok" or the exception the assignment raised
    prevValue,       \* what the assigned property held before that assignment
    nAssign          \* how many assignments were made

regVars == <<registry, call, outcome, prevRegistry, lastRegistered>>
coaVars == <<coa, coaCall, coaOutcome, prevValue, nAssign>>
vars == <<registry, call, outcome, prevRegistry, lastRegistered,
          coa, coaCall, coaOutcome, prevValue, nAssign>>

\* ------------------------------------------------------ bindings/__init__
has_xsi_type(node) == node.has_xsi

\* get_type_info resolving every type through the default namespace
get_type_info_default_ns(node) ==
    IF ~node.has_xsi THEN Raise("KeyError")
    ELSE
        LET typeinfo == Split(node.xsi_type, ":")
            two == Len(typeinfo) = 2
            typename == IF two THEN PyStr(typeinfo[2]) ELSE PyList(typeinfo)
        IN  IF NonePrefix \notin DOMAIN node.nsmap THEN Raise("KeyError")
            ELSE Return(TypeInfo(node.nsmap[NonePrefix], typename))

\* the TypeInfo of node, or the exception raised on the way
get_type_info(node) ==
    IF ~node.has_xsi THEN Raise("KeyError")
    ELSE
        LET typeinfo == Split(node.xsi_type, ":")
            two == Len(typeinfo) = 2
            prefix == IF two THEN typeinfo[1] ELSE NonePrefix
            typename == IF two THEN PyStr(typeinfo[2]) ELSE PyList(typeinfo)
        IN  IF prefix \notin DOMAIN node.nsmap THEN Raise("KeyError")
            ELSE Return(TypeInfo(node.nsmap[prefix], typename))

\* add_extension building the key from the wrong class attribute
add_extension_wrong_key(reg, cls) ==
    IF ~cls.has_xmlns \/ ~cls.has_xml_type
    THEN [registry |-> reg, outcome |-> Raise("AttributeError")]
    ELSE
        LET typeinfo == TypeInfo(cls.xmlns, PyStr(<<cls.xmlns>>))
        IN  [registry |-> [k \in DOMAIN reg \cup {typeinfo} |->
                              IF k = typeinfo THEN cls.name ELSE reg[k]],
             outcome |-> Return(PyNone)]

\* add_extension rebinding the map to a new one that holds only cls
add_extension_rebind(reg, cls) ==
    IF ~cls.has_xmlns \/ ~cls.has_xml_type
    THEN [registry |-> reg, outcome |-> Raise("AttributeError")]
    ELSE
        LET typeinfo == TypeInfo(cls.xmlns, PyStr(cls.xml_type))
        IN  [registry |-> [k \in {typeinfo} |-> cls.name],
             outcome |-> Return(PyNone)]

\* add_extension reading the attributes with a fallback and storing the
\* class under the partial key before it fails
add_extension_getattr(reg, cls) ==
    LET typeinfo == TypeInfo(IF cls.has_xmlns THEN cls.xmlns ELSE "",
                             PyStr(IF cls.has_xml_type THEN cls.xml_type ELSE <<>>))
        stored == [k \in DOMAIN reg \cup {typeinfo} |->
                      IF k = typeinfo THEN cls.name ELSE reg[k]]
    IN  IF ~cls.has_xmlns \/ ~cls.has_xml_type
        THEN [registry |-> stored, outcome |-> Raise("AttributeError")]
        ELSE [registry |-> stored, outcome |-> Return(PyNone)]

\* add_extension keeping the class already stored under the key
\* (setdefault instead of item assignment)
add_extension_keep_first(reg, cls) ==
    IF ~cls.has_xmlns \/ ~cls.has_xml_type
    THEN [registry |-> reg, outcome |-> Raise("AttributeError")]
    ELSE
        LET typeinfo == TypeInfo(cls.xmlns, PyStr(cls.xml_type))
        IN  [registry |-> [k \in DOMAIN reg \cup {typeinfo} |->
                              IF k \in DOMAIN reg THEN reg[k] ELSE cls.name],
             outcome |-> Return(PyNone)]

\* the registry after add_extension(cls), and what the call did
add_extension(reg, cls) ==
    IF ~cls.has_xmlns \/ ~cls.has_xml_type
    THEN [registry |-> reg, outcome |-> Raise("AttributeError")]
    ELSE
        LET typeinfo == TypeInfo(cls.xmlns, PyStr(cls.xml_type))
        IN  [registry |-> [k \in DOMAIN reg \cup {typeinfo} |->
                              IF k = typeinfo THEN cls.name ELSE reg[k]],
             outcome |-> Return(PyNone)]

register_extension(reg, cls) ==
    LET r == add_extension(reg, cls)
    IN  IF r.outcome.kind = "raise" THEN r
        ELSE [registry |-> r.registry, outcome |-> Return(ClassRef(cls.name))]

\* lines 101-106: the lookup proper, on a TypeInfo
lookup_typeinfo(reg, typeinfo) ==
    IF ~Hashable(typeinfo) THEN Raise("TypeError")
    ELSE IF typeinfo \in DOMAIN reg THEN Return(ClassRef(reg[typeinfo]))
    ELSE RaiseMsg("NotImplementedError", typeinfo)

\* lookup_extension without the elif branch that returns the default
lookup_extension_no_default(reg, d, default) ==
    IF d.isTypeInfo THEN lookup_typeinfo(reg, d.ti)
    ELSE IF has_xsi_type(d.node)
    THEN LET r == get_type_info(d.node)
         IN  IF r.kind = "raise" THEN r ELSE lookup_typeinfo(reg, r.value)
    ELSE Raise("AttributeError")

lookup_extension(reg, d, default) ==
    IF d.isTypeInfo THEN lookup_typeinfo(reg, d.ti)
    ELSE IF has_xsi_type(d.node)
    THEN LET r == get_type_info(d.node)
         IN  IF r.kind = "raise" THEN r ELSE lookup_typeinfo(reg, r.value)
    ELSE IF Truthy(default) THEN Return(default)
    \* typeinfo is still the element: it is hashable and no key of the
    \* map, and it has no attribute ns for the error message
    ELSE Raise("AttributeError")

\* ---------------------------------------------------------------- actions
NoCall == [op |-> "none", cls |-> "", d |-> FromTypeInfo(NoTypeInfo), default |-> PyNone]

RegInit ==
    /\ registry = <<>>
    /\ call = NoCall
    /\ outcome = Return(PyNone)
    /\ prevRegistry = <<>>
    /\ lastRegistered = <<>>

DoRegister(op, cls, r) ==
    /\ registry' = r.registry
    /\ outcome' = r.outcome
    /\ prevRegistry' = registry
    /\ call' = [op |-> op, cls |-> cls.name, d |-> FromTypeInfo(NoTypeInfo),
                default |-> PyNone]
    /\ lastRegistered' =
          IF cls.has_xmlns /\ cls.has_xml_type
          THEN LET key == TypeInfo(cls.xmlns, PyStr(cls.xml_type))
               IN  [k \in DOMAIN lastRegistered \cup {key} |->
                       IF k = key THEN cls.name ELSE lastRegistered[k]]
          ELSE lastRegistered
    /\ UNCHANGED coaVars

AddExtension ==
    \E cls \in Classes : DoRegister("add_extension", cls, add_extension(registry, cls))

RegisterExtension ==
    \E cls \in Classes :
        DoRegister("register_extension", cls, register_extension(registry, cls))

DoLookup(d, default) ==
    /\ outcome' = lookup_extension(registry, d, default)
    /\ call' = [op |-> "lookup_extension", cls |-> "", d |-> d, default |-> default]
    /\ prevRegistry' = registry
    /\ UNCHANGED <<registry, lastRegistered>>
    /\ UNCHANGED coaVars

LookupTypeInfo ==
    \E ti \in TypeInfos, default \in Defaults : DoLookup(FromTypeInfo(ti), default)

LookupNode ==
    \E n \in XmlNodes, default \in Defaults : DoLookup(FromNode(n), default)

\* ------------------------------------------------------------ coa/__init__
Fields == {"stage", "type_", "objective", "impact", "cost", "efficacy", "handling"}

\* values assigned to the properties: the falsy objects, raw scalars, and
\* instances of the types the setters test for
FalsyValues ==
    { PyNone, Value("str", "", ""), Value("int", "", "0"),
      Value("bool", "", "False"), Value("list", "", "[]") }

RawValues == { Value("str", "", "Remedy") }

Instances ==
    { Value("VocabString", "str", "Response"),
      Value("Statement", "str", "High"),
      Value("Objective", "str", "Block"),
      Value("Marking", "str", "TLP") }

CoaValues == FalsyValues \cup RawValues \cup Instances

\* isinstance(value, typ): COAStage and CourseOfActionType derive from
\* VocabString
IsInstance(value, typ) ==
    \/ value.type = typ
    \/ typ = "VocabString" /\ value.type \in {"COAStage", "CourseOfActionType"}

\* typ(value=value)
Wrap(typ, value) == Value(typ, value.type, value.v)

Stored(c, field, value) ==
    [coa |-> [c EXCEPT ![field] = value], outcome |-> "ok"]
Failed(c, exc) == [coa |-> c, outcome |-> exc]

\* the setters of stage and type_
VocabSetter(c, field, typ, value) ==
    IF ~Truthy(value) THEN Stored(c, field, PyNone)
    ELSE IF IsInstance(value, "VocabString") THEN Stored(c, field, value)
    ELSE Stored(c, field, Wrap(typ, value))

stage_setter(c, value) == VocabSetter(c, "stage", "COAStage", value)
type_setter(c, value) == VocabSetter(c, "type_", "CourseOfActionType", value)

objective_setter(c, value) ==
    IF ~Truthy(value) THEN Stored(c, "objective", PyNone)
    ELSE IF IsInstance(value, "Objective") THEN Stored(c, "objective", value)
    ELSE Failed(c, "ValueError")

\* the setters of impact, cost and efficacy
StatementSetter(c, field, value) ==
    IF ~Truthy(value) THEN Stored(c, field, PyNone)
    ELSE IF IsInstance(value, "Statement") THEN Stored(c, field, value)
    ELSE Stored(c, field, Wrap("Statement", value))

impact_setter(c, value) == StatementSetter(c, "impact", value)
cost_setter(c, value) == StatementSetter(c, "cost", value)
efficacy_setter(c, value) == StatementSetter(c, "efficacy", value)

\* the handling setter storing the value before it tests it
handling_setter_store_first(c, value) ==
    IF Truthy(value) /\ ~IsInstance(value, "Marking")
    THEN [coa |-> [c EXCEPT !["handling"] = value], outcome |-> "ValueError"]
    ELSE Stored(c, "handling", value)

handling_setter(c, value) ==
    IF Truthy(value) /\ ~IsInstance(value, "Marking") THEN Failed(c, "ValueError")
    ELSE Stored(c, "handling", value)

\* the property getters return the private field
Get(c, field) == c[field]

\* CourseOfAction.__init__ assigns None to every property
CoaInit ==
    /\ coa = [f \in Fields |-> PyNone]
    /\ coaCall = [field |-> "none", value |-> PyNone]
    /\ coaOutcome = "ok"
    /\ prevValue = PyNone
    /\ nAssign = 0

Assign(field, value, r) ==
    /\ nAssign < MaxAssign
    /\ nAssign' = nAssign + 1
    /\ coa' = r.coa
    /\ coaOutcome' = r.outcome
    /\ coaCall' = [field |-> field, value |-> value]
    /\ prevValue' = coa[field]
    /\ UNCHANGED regVars

SetStage == \E v \in CoaValues : Assign("stage", v, stage_setter(coa, v))
SetType == \E v \in CoaValues : Assign("type_", v, type_setter(coa, v))
SetObjective == \E v \in CoaValues : Assign("objective", v, objective_setter(coa, v))
SetImpact == \E v \in CoaValues : Assign("impact", v, impact_setter(coa, v))
SetCost == \E v \in CoaValues : Assign("cost", v, cost_setter(coa, v))
SetEfficacy == \E v \in CoaValues : Assign("efficacy", v, efficacy_setter(coa, v))
SetHandling == \E v \in CoaValues : Assign("handling", v, handling_setter(coa, v))

CoaNext ==
    \/ SetStage \/ SetType \/ SetObjective \/ SetImpact
    \/ SetCost \/ SetEfficacy \/ SetHandling

\* ---------------------------------------------------------- specifications
Init == RegInit /\ CoaInit

\* the registry, with the CourseOfAction left as constructed
Next == AddExtension \/ RegisterExtension \/ LookupTypeInfo \/ LookupNode
Spec == Init /\ [][Next]_vars

\* one CourseOfAction, with the registry left empty
CoaSpec == Init /\ [][CoaNext]_vars

\* ------------------------------------------------------------------ claims
IsLookup == call.op = "lookup_extension"
IsRegister == call.op \in {"add_extension", "register_extension"}
NodeLookup == IsLookup /\ ~call.d.isTypeInfo
NoColon(str) == \A i \in 1..Len(str) : str[i] # ":"
ClassOf(name) == CHOOSE c \in Classes : c.name = name
Complete(cls) == cls.has_xmlns /\ cls.has_xml_type
KeyOf(cls) == TypeInfo(cls.xmlns, PyStr(cls.xml_type))

\* C1: a lookup by TypeInfo(C.xmlns, C.xml_type) returns C, the class most
\* recently registered under that pair, whatever calls came in between.
C1_LookupReturnsRegistered ==
    (IsLookup /\ call.d.isTypeInfo /\ call.d.ti \in DOMAIN lastRegistered)
        => outcome = Return(ClassRef(lastRegistered[call.d.ti]))

C1_Witness ==
    /\ IsLookup /\ call.d.isTypeInfo
    /\ call.d.ti = TypeInfo("urn:x", PyStr(<<"T">>))
    /\ outcome = Return(ClassRef("Foo"))
    /\ Cardinality(DOMAIN registry) = 2

\* C2 as stated: a lookup on a node without xsi:type returns whatever default
\* was supplied and raises nothing.
C2_AnyDefaultReturned ==
    (NodeLookup /\ ~call.d.node.has_xsi /\ call.default # PyNone)
        => outcome = Return(call.default)

\* C2 amended: a lookup on a node without xsi:type returns the supplied
\* default and raises nothing when the default is truthy.
C2_TruthyDefaultReturned ==
    (NodeLookup /\ ~call.d.node.has_xsi /\ Truthy(call.default))
        => outcome = Return(call.default)

C2_Witness ==
    /\ NodeLookup /\ ~call.d.node.has_xsi
    /\ call.default = ClassRef("Bar")
    /\ outcome = Return(ClassRef("Bar"))
    /\ registry # <<>>

\* C3: a lookup on a node whose xsi:type resolves to a TypeInfo that is no key
\* of the registry raises NotImplementedError naming the namespace and the
\* type name, with or without a default.
C3_UnregisteredRaisesNotImplemented ==
    (NodeLookup /\ call.d.node.has_xsi
        /\ get_type_info(call.d.node).kind = "return"
        /\ get_type_info(call.d.node).value \notin DOMAIN registry)
        => outcome = RaiseMsg("NotImplementedError", get_type_info(call.d.node).value)

\* C4: a lookup on a node whose xsi:type is 'p:T', with p bound to U in the
\* node's nsmap, returns the class registered under (U, T).
C4_PrefixResolved ==
    \A pfx \in Strings(MaxLen), t \in Strings(MaxLen) :
        (/\ NodeLookup /\ call.d.node.has_xsi
         /\ NoColon(pfx) /\ NoColon(t)
         /\ call.d.node.xsi_type = pfx \o <<":">> \o t
         /\ pfx \in DOMAIN call.d.node.nsmap
         /\ TypeInfo(call.d.node.nsmap[pfx], PyStr(t)) \in DOMAIN lastRegistered)
        => outcome = Return(ClassRef(
               lastRegistered[TypeInfo(call.d.node.nsmap[pfx], PyStr(t))]))

C4_Witness ==
    /\ NodeLookup /\ call.d.node.has_xsi
    /\ call.d.node.xsi_type = <<"p", ":", "p">>
    /\ call.d.node.nsmap = [k \in {NonePrefix, <<"p">>} |->
                               IF k = NonePrefix THEN "urn:x" ELSE "urn:bar"]
    /\ outcome = Return(ClassRef("Bar"))

\* C5: a lookup on a node whose xsi:type is a bare name without ':' resolves
\* to (default namespace, name) and returns the class registered under it.
C5_BareNameResolved ==
    (/\ NodeLookup /\ call.d.node.has_xsi
     /\ NoColon(call.d.node.xsi_type)
     /\ NonePrefix \in DOMAIN call.d.node.nsmap
     /\ TypeInfo(call.d.node.nsmap[NonePrefix], PyStr(call.d.node.xsi_type))
            \in DOMAIN lastRegistered)
        => outcome = Return(ClassRef(lastRegistered[
               TypeInfo(call.d.node.nsmap[NonePrefix], PyStr(call.d.node.xsi_type))]))

\* C6: no call removes a key of the registry; a successful registration of C
\* maps C's TypeInfo to C and leaves every other entry as it was; and
\* registering C again right after leaves the registry unchanged.
C6_RegistrationIdempotent ==
    [][/\ DOMAIN registry \subseteq DOMAIN registry'
       /\ (call'.op \in {"add_extension", "register_extension"}
               /\ outcome'.kind = "return")
            => /\ DOMAIN registry' = DOMAIN registry \cup {KeyOf(ClassOf(call'.cls))}
               /\ registry'[KeyOf(ClassOf(call'.cls))] = call'.cls
               /\ \A k \in DOMAIN registry \ {KeyOf(ClassOf(call'.cls))} :
                      registry'[k] = registry[k]
       /\ (IsRegister /\ outcome.kind = "return"
               /\ call'.op \in {"add_extension", "register_extension"}
               /\ call'.cls = call.cls)
            => registry' = registry]_vars

C6_Witness ==
    /\ IsRegister /\ call.cls = "Foo" /\ outcome.kind = "return"
    /\ registry = prevRegistry
    /\ Cardinality(DOMAIN registry) = 2

\* C7: a lookup on a node without xsi:type and without a default raises
\* NotImplementedError.
C7_NoTypeNoDefaultRaisesNotImplemented ==
    (NodeLookup /\ ~call.d.node.has_xsi /\ call.default = PyNone)
        => (outcome.kind = "raise" /\ outcome.exc = "NotImplementedError")

\* C8: registering a class that lacks xmlns or xml_type raises AttributeError
\* and leaves the registry exactly as it was.
C8_MissingAttributeFailsFast ==
    (IsRegister /\ ~Complete(ClassOf(call.cls)))
        => /\ outcome = Raise("AttributeError")
           /\ registry = prevRegistry

C8_Witness ==
    /\ IsRegister /\ call.cls = "NoXmlns"
    /\ outcome = Raise("AttributeError")
    /\ Cardinality(DOMAIN registry) = 2

\* C9: assigning a falsy value to any property of CourseOfAction clears it:
\* the getter returns None afterwards.
C9_FalsyClears ==
    (coaCall.field \in Fields /\ coaCall.value \in FalsyValues)
        => (coaOutcome = "ok" /\ Get(coa, coaCall.field) = PyNone)

\* C10: a truthy value that is no Marking assigned to handling, or no
\* Objective assigned to objective, raises ValueError and leaves the property
\* as it was; stage, type_, impact, cost and efficacy never raise, store a raw
\* scalar wrapped in their value type, and never hold a raw scalar.
ScalarTypes == {"str", "int", "bool", "list"}
Wrapper(field) ==
    CASE field = "stage" -> "COAStage"
      [] field = "type_" -> "CourseOfActionType"
      [] OTHER -> "Statement"

C11_Overwrites ==
    /\ call'.op \in {"add_extension", "register_extension"}
    /\ Complete(ClassOf(call'.cls))
    /\ KeyOf(ClassOf(call'.cls)) \in DOMAIN registry
    /\ registry[KeyOf(ClassOf(call'.cls))] # call'.cls

C11_LookupKey ==
    IF ~IsLookup THEN NoTypeInfo
    ELSE IF call.d.isTypeInfo THEN call.d.ti
    ELSE IF get_type_info(call.d.node).kind = "return"
    THEN get_type_info(call.d.node).value
    ELSE NoTypeInfo

C11_LatestHeld ==
    /\ DOMAIN registry = DOMAIN lastRegistered
    /\ \A k \in DOMAIN registry : registry[k] = lastRegistered[k]
    /\ (IsLookup /\ C11_LookupKey \in DOMAIN lastRegistered)
        => outcome = Return(ClassRef(lastRegistered[C11_LookupKey]))

====
